---- MODULE Spec2Model ----
(***************************************************************************)
(* Tile-grid physics and collision core of the platformer: Player and NPC  *)
(* (player.py, npc.py).                                                    *)
(*                                                                         *)
(* Numbers.  The code keeps x, y, vel_x, vel_y and the timers as Python    *)
(* floats.  The model keeps them as exact fixed-point integers:            *)
(*   positions in 1/PX pixel, velocities in 1/VEL pixel per second,        *)
(*   dt and the dash timers in milliseconds (clock.tick returns whole ms). *)
(* With these units gravity*dt, vel*dt and timer - dt are exact integers,  *)
(* so the model is the code's arithmetic without binary rounding error.    *)
(* pygame.Rect truncates its float arguments to int; colliderect is a      *)
(* strict overlap test (touching edges do not collide).                    *)
(***************************************************************************)
EXTENDS Integers, Sequences, FiniteSets, TLC

VARIABLES ent, tiles, body, last, ticks, map_data, enemy, game

vars == <<ent, tiles, body, last, ticks, map_data, enemy, game>>

-----------------------------------------------------------------------------
(* Units and bounds *)

PX == 10000
VEL == 10

\* ticks (or direct calls) explored from every initial state
MaxTicks == 4
\* a slow frame, in ms (clock.tick(60) caps the rate, not the frame time)
DtSlow == 500
\* direct calls of a collision pass explored from every entry state
MaxCalls == 2

-----------------------------------------------------------------------------
(* Program constants *)

tile_size == 32
map_width == 1920
map_height == 960
ground_level == 928
DtFrame == 16
dash_duration == 200
dash_cooldown == 1000
max_jumps == 2
\* the health system, ms and points
health_drain_interval == 20000
health_drain_amount == 10
clean_time == 30000
\* the quest: items needed, items placed, frames between collection checks
medicine_required == 3
medicine_count == 3
check_period == 10
max_fall_speed == 500 * VEL

\* scale_factor in quarters: 3 = 0.75 (Player's default), 4 = 1.0, 8 = 2.0
Size(e, scale4) == IF e = "Player" THEN (32 * scale4) \div 4 ELSE (60 * scale4) \div 4

speed(e, scale4) == IF e = "Player" THEN 150 * VEL ELSE (100 * VEL * scale4) \div 4
jump_speed(e, scale4) == IF e = "Player" THEN -(450 * VEL) ELSE -((300 * VEL * scale4) \div 4)
\* Player.dash_speed, in px
dash_speed(scale4) == (400 * scale4) \div 4
\* gravity in px/s^2
gravity(e, scale4) == IF e = "Player" THEN 1000 ELSE (600 * scale4) \div 4

\* gravity * dt, in velocity units (dt in ms)
GravityStep(b, dt) == (gravity(b.ent, b.scale4) * dt * VEL) \div 1000
\* vel * dt, in position units: (1/VEL px/s) * ms = 1/(VEL*1000) px = 1/PX px
Move(vel, dt) == vel * dt

-----------------------------------------------------------------------------
(* Grids.  tiles[row][col] != 0 iff <<col, row>> \in solid.  h = 0 is the  *)
(* empty list or None (both falsy in "if ground_tiles:").                  *)

NoGrid == [w |-> 0, h |-> 0, solid |-> {}]
OpenGrid == [w |-> 60, h |-> 30, solid |-> {}]
\* floor row 29, a two-tile ceiling at row 26, a wall at column 8
LevelGrid == [w |-> 60, h |-> 30,
              solid |-> {<<c, 29>> : c \in 0..59} \cup {<<5, 26>>, <<6, 26>>}
                        \cup {<<8, 27>>, <<8, 28>>}]

\* no Enemy constructed (the game never fills self.enemies)
NoEnemy == [x |-> 0, y |-> 0, scale4 |-> 0, vel_x |-> 0, direction |-> 1,
            is_aiming |-> FALSE, shoot_timer |-> 0, shot |-> FALSE]

\* no map loaded: the runs below are handed their grid directly
NoMap == [width |-> 0, height |-> 0, layers |-> <<>>]

\* the Game's quest state in the runs that have no Game
NoGame == [quest_accepted |-> FALSE, quest_completed |-> FALSE,
           collected_items |-> 0, medicine_collected |-> 0,
           quest_active |-> FALSE, collected |-> {}, dialogue |-> "none",
           check_counter |-> -1]

-----------------------------------------------------------------------------
(* pygame.Rect and colliderect *)

Max(a, b) == IF a >= b THEN a ELSE b
Min(a, b) == IF a <= b THEN a ELSE b
Abs(a) == IF a >= 0 THEN a ELSE -a

\* int(float): truncation toward zero, of a position in 1/PX px
Trunc(v) == IF v >= 0 THEN v \div PX ELSE -((-v) \div PX)
\* int(v // tile_size): floor
TileOf(v) == v \div (tile_size * PX)

\* pygame.Rect(self.x, self.y, self.width, self.height), in whole pixels
RectOf(b) == [left |-> Trunc(b.x), top |-> Trunc(b.y),
              right |-> Trunc(b.x) + b.width, bottom |-> Trunc(b.y) + b.height]
\* pygame.Rect(x * tile_size, y * tile_size, tile_size, tile_size)
TileRect(cell) == [left |-> cell[1] * tile_size, top |-> cell[2] * tile_size,
                   right |-> cell[1] * tile_size + tile_size,
                   bottom |-> cell[2] * tile_size + tile_size]
colliderect(r, s) == /\ r.left < s.right /\ r.right > s.left
                     /\ r.top < s.bottom /\ r.bottom > s.top

-----------------------------------------------------------------------------
(* The search window and its row-major sweep *)

\* mutant of Window: the starts are not clipped at 0
Window_NoClip(b, t, lo, hi) ==
    [sx |-> TileOf(b.x) - lo, ex |-> Min(t.w, TileOf(b.x) + hi),
     sy |-> TileOf(b.y) - lo, ey |-> Min(t.h, TileOf(b.y) + hi)]

\* start/end of range(start, end) along both axes
Window(b, t, lo, hi) ==
    [sx |-> Max(0, TileOf(b.x) - lo), ex |-> Min(t.w, TileOf(b.x) + hi),
     sy |-> Max(0, TileOf(b.y) - lo), ey |-> Min(t.h, TileOf(b.y) + hi)]

\* the cells <<col, row>> that "for y in range: for x in range" visits
WinCells(win) == (win.sx .. win.ex - 1) \X (win.sy .. win.ey - 1)
\* the order it visits them in: row by row, columns ascending
RowMajorLess(c, d) == c[2] < d[2] \/ (c[2] = d[2] /\ c[1] < d[1])
FirstCell(cells) == CHOOSE c \in cells : \A d \in cells : d = c \/ RowMajorLess(c, d)

\* "if y < len(tiles) and x < len(tiles[0])" and "tile_gid != 0"
IsSolid(t, cell) == /\ cell[2] < t.h /\ cell[1] < t.w /\ cell \in t.solid

\* the cells of the window at which the loop body does anything: r is the
\* body's rectangle, taken once before the loop
Hits(r, t, win) ==
    {c \in WinCells(win) : IsSolid(t, c) /\ colliderect(r, TileRect(c))}

\* the body of check_horizontal_collisions' loop for one cell
HStep(b, r, t, cell) ==
    IF IsSolid(t, cell) /\ colliderect(r, TileRect(cell))
    THEN IF b.vel_x > 0 \/ (b.ent = "Player" /\ b.is_dashing)
         THEN [b EXCEPT !.x = (TileRect(cell).left - b.width) * PX]
         ELSE IF b.vel_x < 0 \/ (b.ent = "Player" /\ b.is_dashing)
              THEN [b EXCEPT !.x = TileRect(cell).right * PX]
              ELSE b
    ELSE b

\* the loop, over the cells where its body acts, in the loop's order
RECURSIVE HSweep(_, _, _, _)
HSweep(b, r, t, cells) ==
    IF cells = {} THEN b
    ELSE HSweep(HStep(b, r, t, FirstCell(cells)), r, t, cells \ {FirstCell(cells)})

\* mutant of HWindow: the window ends one tile earlier
HWindow_Narrow(b, t) == Window(b, t, 2, 3)

\* "player_tile - 2 .. player_tile + 4" in both entities
HWindow(b, t) == Window(b, t, 2, 4)

check_horizontal_collisions(b, t) ==
    HSweep(b, RectOf(b), t, Hits(RectOf(b), t, HWindow(b, t)))

\* mutant of VStep: a landing pushes the body up one pixel per call instead of
\* placing it on the tile
VStep_NudgeUp(b, r, t, cell) ==
    IF IsSolid(t, cell) /\ colliderect(r, TileRect(cell))
    THEN IF b.vel_y > 0
         THEN [b EXCEPT !.y = b.y - PX, !.on_ground = TRUE, !.jump_count = 0]
         ELSE IF b.vel_y < 0
              THEN [b EXCEPT !.y = TileRect(cell).bottom * PX, !.vel_y = 0]
              ELSE b
    ELSE b

\* mutant of VStep: the head bump forgets "self.vel_y = 0"
VStep_BumpKeepsVelY(b, r, t, cell) ==
    IF IsSolid(t, cell) /\ colliderect(r, TileRect(cell))
    THEN IF b.vel_y > 0
         THEN [b EXCEPT !.y = (TileRect(cell).top - b.height) * PX, !.vel_y = 0,
                        !.on_ground = TRUE, !.jump_count = 0]
         ELSE IF b.vel_y < 0
              THEN [b EXCEPT !.y = TileRect(cell).bottom * PX]
              ELSE b
    ELSE b

\* mutant of VStep: the landing forgets "self.jump_count = 0"
VStep_KeepsJumpCount(b, r, t, cell) ==
    IF IsSolid(t, cell) /\ colliderect(r, TileRect(cell))
    THEN IF b.vel_y > 0
         THEN [b EXCEPT !.y = (TileRect(cell).top - b.height) * PX, !.vel_y = 0,
                        !.on_ground = TRUE]
         ELSE IF b.vel_y < 0
              THEN [b EXCEPT !.y = TileRect(cell).bottom * PX, !.vel_y = 0]
              ELSE b
    ELSE b

\* the body of check_vertical_collisions' loop for one cell
VStep(b, r, t, cell) ==
    IF IsSolid(t, cell) /\ colliderect(r, TileRect(cell))
    THEN IF b.vel_y > 0
         THEN [b EXCEPT !.y = (TileRect(cell).top - b.height) * PX, !.vel_y = 0,
                        !.on_ground = TRUE, !.jump_count = 0]
         ELSE IF b.vel_y < 0
              THEN [b EXCEPT !.y = TileRect(cell).bottom * PX, !.vel_y = 0]
              ELSE b
    ELSE b

RECURSIVE VSweep(_, _, _, _)
VSweep(b, r, t, cells) ==
    IF cells = {} THEN b
    ELSE VSweep(VStep(b, r, t, FirstCell(cells)), r, t, cells \ {FirstCell(cells)})

\* mutant of GroundSnap: the snap does not look at vel_y
GroundSnap_AnyVelY(b) ==
    IF ~b.on_ground /\ Abs(b.y + b.height * PX - ground_level * PX) <= 2 * PX
    THEN [b EXCEPT !.y = (ground_level - b.height) * PX, !.vel_y = 0,
                   !.on_ground = TRUE, !.jump_count = 0]
    ELSE b

\* mutant of GroundSnap: grounds the body where it is, without the snap of y
GroundSnap_KeepsY(b) ==
    IF ~b.on_ground /\ b.vel_y >= 0
       /\ Abs(b.y + b.height * PX - ground_level * PX) <= 2 * PX
    THEN [b EXCEPT !.vel_y = 0, !.on_ground = TRUE, !.jump_count = 0]
    ELSE b

\* Player only: "if player is very close to ground, consider them on ground"
GroundSnap(b) ==
    IF ~b.on_ground /\ b.vel_y >= 0
       /\ Abs(b.y + b.height * PX - ground_level * PX) <= 2 * PX
    THEN [b EXCEPT !.y = (ground_level - b.height) * PX, !.vel_y = 0,
                   !.on_ground = TRUE, !.jump_count = 0]
    ELSE b

\* mutant of VWindow: the NPC's vertical pass looks at the body's own tile and
\* the next one only
VWindow_NPCNarrow(b, t) ==
    IF b.ent = "Player" THEN Window(b, t, 3, 5) ELSE Window(b, t, 0, 2)

\* the Player's vertical pass looks one tile further than the NPC's
VWindow(b, t) == IF b.ent = "Player" THEN Window(b, t, 3, 5) ELSE Window(b, t, 2, 4)

check_vertical_collisions(b, t) ==
    LET b0 == [b EXCEPT !.on_ground = FALSE]
        swept == VSweep(b0, RectOf(b), t, Hits(RectOf(b), t, VWindow(b, t)))
    IN  IF b.ent = "Player" THEN GroundSnap(swept) ELSE swept

-----------------------------------------------------------------------------
(* Input *)

\* the sets of held keys the model feeds to a tick
KeySets == { {}, {"SPACE"}, {"D"}, {"LEFT", "D"}, {"RIGHT"} }

MoveLeft(e, keys) == IF e = "Player" THEN "LEFT" \in keys
                     ELSE "A" \in keys \/ "LEFT" \in keys
MoveRight(e, keys) == IF e = "Player" THEN "RIGHT" \in keys
                      ELSE "D" \in keys \/ "RIGHT" \in keys

Steer(b, keys) ==
    IF MoveLeft(b.ent, keys)
    THEN [b EXCEPT !.vel_x = -speed(b.ent, b.scale4), !.facing_right = FALSE]
    ELSE IF MoveRight(b.ent, keys)
         THEN [b EXCEPT !.vel_x = speed(b.ent, b.scale4), !.facing_right = TRUE]
         ELSE [b EXCEPT !.vel_x = 0]

\* mutant of Jump: a double jump, allowed while jump_count < max_jumps
Jump_InAir(b, keys) ==
    IF "SPACE" \in keys /\ (b.on_ground \/ b.jump_count < max_jumps)
    THEN [b EXCEPT !.vel_y = jump_speed(b.ent, b.scale4), !.on_ground = FALSE,
                   !.jump_count = b.jump_count + 1]
    ELSE b

Jump(b, keys) ==
    IF "SPACE" \in keys /\ b.on_ground
    THEN [b EXCEPT !.vel_y = jump_speed(b.ent, b.scale4), !.on_ground = FALSE,
                   !.jump_count = b.jump_count + 1]
    ELSE b

\* mutant of StartDash: the cooldown is not consulted
StartDash_NoCooldown(b, keys) ==
    IF "D" \in keys /\ ~b.is_dashing
    THEN [b EXCEPT !.is_dashing = TRUE, !.dash_timer = dash_duration,
                   !.dash_cooldown_timer = dash_cooldown]
    ELSE b

StartDash(b, keys) ==
    IF "D" \in keys /\ ~b.is_dashing /\ b.dash_cooldown_timer <= 0
    THEN [b EXCEPT !.is_dashing = TRUE, !.dash_timer = dash_duration,
                   !.dash_cooldown_timer = dash_cooldown]
    ELSE b

handle_normal_movement(b, keys) == StartDash(Jump(Steer(b, keys), keys), keys)

\* Player.handle_dash: the dash boost.  No caller: Player.update calls
\* handle_normal_movement only, so no action of the model applies it.
handle_dash(b, keys, dt) ==
    LET b1 == StartDash(b, keys)
    IN  IF b1.is_dashing
        THEN [b1 EXCEPT !.x = b1.x + (IF b1.facing_right THEN 1 ELSE -1)
                                     * dash_speed(b1.scale4) * PX,
                        !.dash_timer = b1.dash_timer - dt,
                        !.is_dashing = ~(b1.dash_timer - dt <= 0)]
        ELSE b1

-----------------------------------------------------------------------------
(* One tick, step by step *)

\* mutant of ApplyGravity: no fall-speed limit
ApplyGravity_NoLimit(b, dt) == [b EXCEPT !.vel_y = b.vel_y + GravityStep(b, dt)]

\* vel_y += gravity * dt, and the Player's fall-speed limit
ApplyGravity(b, dt) ==
    LET v == b.vel_y + GravityStep(b, dt)
    IN  [b EXCEPT !.vel_y = IF b.ent = "Player" /\ v > max_fall_speed
                            THEN max_fall_speed ELSE v]

Integrate(b, dt) ==
    [b EXCEPT !.x = b.x + Move(b.vel_x, dt), !.y = b.y + Move(b.vel_y, dt)]

\* mutant of ClampToMap: the map clamp alone, without the ground-level clamp
ClampToMap_NoGroundLevel(b) ==
    [b EXCEPT !.x = Max(0, Min(b.x, (map_width - b.width) * PX)),
              !.y = Max(0, Min(b.y, (map_height - b.height) * PX))]

\* mutant of ClampToMap: the clamp to the map's bottom edge grounds the body too
ClampToMap_GroundsAtBottom(b) ==
    LET cx == Max(0, Min(b.x, (map_width - b.width) * PX))
        cy == Max(0, Min(b.y, (map_height - b.height) * PX))
    IN  IF cy > ground_level * PX
        THEN [b EXCEPT !.x = cx, !.y = (ground_level - b.height) * PX,
                       !.vel_y = 0, !.on_ground = TRUE]
        ELSE [b EXCEPT !.x = cx, !.y = cy, !.on_ground = b.on_ground \/ cy < b.y]

\* Player.update's map clamp and its ground-level clamp
ClampToMap(b) ==
    LET cx == Max(0, Min(b.x, (map_width - b.width) * PX))
        cy == Max(0, Min(b.y, (map_height - b.height) * PX))
    IN  IF cy > ground_level * PX
        THEN [b EXCEPT !.x = cx, !.y = (ground_level - b.height) * PX,
                       !.vel_y = 0, !.on_ground = TRUE]
        ELSE [b EXCEPT !.x = cx, !.y = cy]

\* mutant of UpdateDash: the cooldown runs only once the dash has ended
UpdateDash_CooldownAfterDash(b, dt) ==
    LET b1 == IF b.is_dashing
              THEN [b EXCEPT !.dash_timer = b.dash_timer - dt,
                             !.is_dashing = ~(b.dash_timer - dt <= 0)]
              ELSE b
    IN  IF b1.dash_cooldown_timer > 0 /\ ~b.is_dashing
        THEN [b1 EXCEPT !.dash_cooldown_timer = b1.dash_cooldown_timer - dt]
        ELSE b1

\* "Update dash": the dash timer, then the cooldown timer
UpdateDash(b, dt) ==
    LET b1 == IF b.is_dashing
              THEN [b EXCEPT !.dash_timer = b.dash_timer - dt,
                             !.is_dashing = ~(b.dash_timer - dt <= 0)]
              ELSE b
    IN  IF b1.dash_cooldown_timer > 0
        THEN [b1 EXCEPT !.dash_cooldown_timer = b1.dash_cooldown_timer - dt]
        ELSE b1

\* the tick up to the collision passes: input, gravity, integration and, for
\* the Player, the clamps
BeforeCollide(b, keys, dt) ==
    LET moved == Integrate(ApplyGravity(handle_normal_movement(b, keys), dt), dt)
    IN  IF b.ent = "Player" THEN ClampToMap(moved) ELSE moved

\* "if ground_tiles:" guards both passes
HorizontalPass(b, t) == IF t.h > 0 THEN check_horizontal_collisions(b, t) ELSE b
VerticalPass(b, t) == IF t.h > 0 THEN check_vertical_collisions(b, t) ELSE b

\* mutant of AnimationState: 'run' is looked at before 'jump'
AnimationState_RunFirst(b) ==
    IF Abs(b.vel_x) > 5 * VEL THEN "run"
    ELSE IF ~b.on_ground THEN "jump" ELSE "idle"

\* the state update_animation derives (a local of the Player's method,
\* self.state in the NPC)
AnimationState(b) ==
    IF ~b.on_ground THEN "jump"
    ELSE IF Abs(b.vel_x) > 5 * VEL THEN "run" ELSE "idle"

update_animation(b) == [b EXCEPT !.state = AnimationState(b)]

\* Player.update_health_system: the dirt timer runs down and clears is_dirty,
\* then a body still dirty accumulates the drain timer
update_health_system(b, dt) ==
    LET b1 == IF b.is_dirty
              THEN [b EXCEPT !.dirt_timer = b.dirt_timer - dt,
                             !.is_dirty = ~(b.dirt_timer - dt <= 0)]
              ELSE b
    IN  IF b1.is_dirty
        THEN IF b1.health_drain_timer + dt >= health_drain_interval
             THEN [b1 EXCEPT !.health_drain_timer = 0,
                             !.max_health = Max(0, b1.max_health - health_drain_amount)]
             ELSE [b1 EXCEPT !.health_drain_timer = b1.health_drain_timer + dt]
        ELSE b1

\* Player.make_dirty and Player.clean_up
make_dirty(b) == [b EXCEPT !.is_dirty = TRUE, !.dirt_timer = 0]
clean_up(b) == [b EXCEPT !.is_dirty = FALSE, !.dirt_timer = clean_time]

\* the Player runs its health system and animates after its dash timers, the
\* NPC animates before them and has no health step
update(b, keys, dt, t) ==
    LET collided == VerticalPass(HorizontalPass(BeforeCollide(b, keys, dt), t), t)
    IN  IF b.ent = "Player"
        THEN update_animation(update_health_system(UpdateDash(collided, dt), dt))
        ELSE UpdateDash(update_animation(collided), dt)

-----------------------------------------------------------------------------
(* State machine: one entity, its grid, and what its last operation did *)

NewBody(e, scale4, px, py) ==
    [ent |-> e, scale4 |-> scale4, x |-> px * PX, y |-> py * PX,
     width |-> Size(e, scale4), height |-> Size(e, scale4),
     vel_x |-> 0, vel_y |-> 0, on_ground |-> FALSE, jump_count |-> 0,
     is_dashing |-> FALSE, dash_timer |-> 0, dash_cooldown_timer |-> 0,
     facing_right |-> TRUE, state |-> "idle",
     is_dirty |-> FALSE, dirt_timer |-> 0, health_drain_timer |-> 0,
     max_health |-> 100]

\* the entities the runs construct: kind, scale, spawn point (px), grid
Spawns ==
    { <<"Player", 8, 160, 864, LevelGrid>>,
      <<"Player", 8, 191, 850, LevelGrid>>,
      <<"Player", 8, 100, 863, OpenGrid>>,
      <<"Player", 3, 100, 925, OpenGrid>>,
      <<"Player", 3, 100, 930, NoGrid>>,
      <<"Player", 8, 1850, 890, NoGrid>>,
      <<"Player", 3, 200, 900, LevelGrid>>,
      <<"Player", 8, 1850, 610, LevelGrid>>,
      <<"Player", 3, 226, 650, LevelGrid>>,
      <<"NPC", 4, 160, 869, LevelGrid>>,
      <<"NPC", 4, 195, 860, LevelGrid>>,
      <<"NPC", 4, 100, 900, NoGrid>> }

\* frame times, in ms
DTs == {DtFrame, DtSlow}

\* last: the last operation, its inputs, the body on entry (pre) and after
\* each of its steps, and every key held so far.
\* dashAge: tick time (ms) since the last dash started, the starting tick
\* included; dashIdle: tick time since the last dash ended; -1 when there is
\* none; dashAgeIn, dashIdleIn: the same on entry to the last tick;
\* camera_x: the camera position handed to the last Enemy.update
Started(b) == [op |-> "init", keys |-> {}, dt |-> 0, held |-> {},
               pre |-> b, inp |-> b, hin |-> b, vin |-> b,
               dashAge |-> -1, dashIdle |-> -1, dashAgeIn |-> -1, dashIdleIn |-> -1,
               camera_x |-> 0, presses |-> 0]

\* the clocks of the dash history after a tick of dt that leaves the input
\* step as inp and ends as out
DashAge(inp, dt) ==
    IF inp.is_dashing /\ ~body.is_dashing THEN dt
    ELSE IF last.dashAge >= 0 THEN last.dashAge + dt ELSE -1

DashIdle(inp, out, dt) ==
    IF out.is_dashing THEN -1
    ELSE IF inp.is_dashing THEN 0
    ELSE IF last.dashIdle >= 0 THEN last.dashIdle + dt ELSE -1

Init ==
    \E s \in Spawns :
        /\ ent = s[1]
        /\ tiles = s[5]
        /\ body = NewBody(s[1], s[2], s[3], s[4])
        /\ last = Started(body)
        /\ ticks = 0
        /\ enemy = NoEnemy
        /\ game = NoGame
        /\ map_data = NoMap

\* the whole of update(dt, tiles, None).  last keeps the body as the steps of
\* the tick left it: inp after handle_normal_movement, hin on entry to the
\* horizontal pass, vin on entry to the vertical pass
Tick(keys, dt) ==
    \E inp \in {handle_normal_movement(body, keys)} :
    \E hin \in {BeforeCollide(body, keys, dt)} :
    \E vin \in {HorizontalPass(hin, tiles)} :
    \E out \in {update(body, keys, dt, tiles)} :
        /\ body' = out
        /\ last' = [op |-> "update", keys |-> keys, dt |-> dt,
                    held |-> last.held \cup keys, pre |-> body,
                    inp |-> inp, hin |-> hin, vin |-> vin,
                    dashAge |-> DashAge(inp, dt),
                    dashIdle |-> DashIdle(inp, out, dt),
                    dashAgeIn |-> last.dashAge, dashIdleIn |-> last.dashIdle,
                    camera_x |-> 0, presses |-> last.presses]
        /\ ticks' = ticks + 1
        /\ UNCHANGED <<ent, tiles, map_data, enemy, game>>

PlayerUpdate ==
    /\ ent = "Player"
    /\ ticks < MaxTicks
    /\ \E keys \in KeySets, dt \in DTs : Tick(keys, dt)

NPCUpdate ==
    /\ ent = "NPC"
    /\ ticks < MaxTicks
    /\ \E keys \in KeySets, dt \in DTs : Tick(keys, dt)

Next == PlayerUpdate \/ NPCUpdate

Spec == Init /\ [][Next]_vars

-----------------------------------------------------------------------------
(* A 32x32 Player dropped from y = 0 above a single solid tile *)

\* ticks explored in the drop
MaxFallTicks == 16

\* one solid tile, <<5, 10>>: top 320, columns 160..192
FallGrid == [w |-> 60, h |-> 30, solid |-> {<<5, 10>>}]

InitFall ==
    /\ ent = "Player"
    /\ tiles = FallGrid
    /\ body = NewBody("Player", 4, 160, 0)
    /\ last = Started(body)
    /\ ticks = 0
    /\ enemy = NoEnemy
    /\ game = NoGame
    /\ map_data = NoMap

\* the keys held in the drop: none, or the dash key
FallKeys == { {}, {"D"} }

\* update with no movement or jump key held
FallTick ==
    /\ ticks < MaxFallTicks
    /\ \E keys \in FallKeys, dt \in DTs : Tick(keys, dt)

SpecFall == InitFall /\ [][FallTick]_vars

-----------------------------------------------------------------------------
(* map_utils.py: extract_ground_layer on the map data of load_tmx_map *)

\* layers per map
MaxLayers == 2

\* map sizes <<width, height>> in tiles, layer names and tile identifiers
MapSizes == {<<2, 2>>, <<3, 1>>}
LayerNames == {"ground", "ground1", "background"}
Gids == {0, 5}

\* Python values carry their type: a str never equals a dict
Str(v) == [type |-> "str", val |-> v]

\* a layer as load_tmx_map builds it: a dict whose 'data' is the flat list of
\* the CSV's integers, row after row
Layers(size) ==
    [type : {"dict"}, name : LayerNames, width : {size[1]}, height : {size[2]},
     data : [1 .. size[1] * size[2] -> Gids]]

\* what load_tmx_map returns: the map's size and the list of its layers
MapData(size, layers) == [width |-> size[1], height |-> size[2], layers |-> layers]

\* "v in seq": membership in a Python list, by ==
InList(v, seq) == \E i \in DOMAIN seq : seq[i] = v

solid_layer_names == <<"ground", "ground1">>

\* the grid starts as zeros; a layer is merged only "if name in layers", and
\* merging reads layers[name], an index of a list by a str, which raises
extract_ground_layer(m) ==
    IF \E k \in DOMAIN solid_layer_names : InList(Str(solid_layer_names[k]), m.layers)
    THEN [raised |-> TRUE, grid |-> NoGrid]
    ELSE [raised |-> FALSE, grid |-> [w |-> m.width, h |-> m.height, solid |-> {}]]

InitMap ==
    \E size \in MapSizes, n \in 0 .. MaxLayers :
    \E layers \in [1 .. n -> Layers(size)] :
        /\ map_data = MapData(size, layers)
        /\ tiles = NoGrid
        /\ ent = "Player"
        /\ body = NewBody("Player", 3, 0, 0)
        /\ last = Started(body)
        /\ ticks = 0
        /\ enemy = NoEnemy
        /\ game = NoGame

ExtractGroundLayer ==
    /\ ticks = 0
    /\ tiles' = extract_ground_layer(map_data).grid
    /\ last' = [Started(body) EXCEPT
                   !.op = IF extract_ground_layer(map_data).raised
                          THEN "TypeError" ELSE "extract_ground_layer"]
    /\ ticks' = 1
    /\ UNCHANGED <<ent, body, map_data, enemy, game>>

SpecMap == InitMap /\ [][ExtractGroundLayer]_vars

-----------------------------------------------------------------------------
(* fornewmap.py: Game.create_collision_grid on the map data of             *)
(* load_tmx_map_with_tilesets                                              *)

\* map sizes <<width, height>> in tiles: below and at the 26 and 30 rows that
\* the sample prints of create_collision_grid index
GridSizes == {<<2, 2>>, <<2, 26>>, <<2, 30>>}

\* flat 'data' lists of length n: no tile, all tiles, every second tile, the
\* last tile only
DataPatterns(n) ==
    { [i \in 1 .. n |-> 0], [i \in 1 .. n |-> 5],
      [i \in 1 .. n |-> IF i % 2 = 1 THEN 5 ELSE 0],
      [i \in 1 .. n |-> IF i = n THEN 7 ELSE 0] }

\* layers of a map of the given size: the layer's own width is the map's or
\* one more, its data complete or one identifier short
GridLayers(size) ==
    UNION { [type : {"dict"}, name : {"ground", "background"},
             width : {lw}, height : {size[2]}, data : DataPatterns(n)] :
            <<lw, n>> \in { <<size[1], size[1] * size[2]>>,
                           <<size[1] + 1, size[1] * size[2] - 1>> } }

\* next((l for l in layers if l['name'] == 'ground'), None): its index, 0 for None
GroundLayerIndex(layers) ==
    IF \E i \in DOMAIN layers : layers[i].name = "ground"
    THEN CHOOSE i \in DOMAIN layers :
            /\ layers[i].name = "ground"
            /\ \A j \in DOMAIN layers : layers[j].name = "ground" => i <= j
    ELSE 0

\* the cells the double loop sets to 1
SolidOfLayer(m, l) ==
    {c \in (0 .. m.width - 1) \X (0 .. m.height - 1) :
        /\ c[2] * l.width + c[1] < Len(l.data)
        /\ l.data[c[2] * l.width + c[1] + 1] # 0}

\* the sample prints read len(grid[0]), grid[25][x] and grid[29][x] for
\* x < min(10, len(grid[0])): IndexError when those rows do not exist
SamplePrintsRaise(m) ==
    \/ m.height = 0
    \/ (m.width > 0 /\ m.height <= 29)

create_collision_grid(m) ==
    LET g == GroundLayerIndex(m.layers)
    IN  IF g = 0
        THEN [raised |-> FALSE, grid |-> [w |-> m.width, h |-> m.height, solid |-> {}]]
        ELSE IF SamplePrintsRaise(m)
             THEN [raised |-> TRUE, grid |-> NoGrid]
             ELSE [raised |-> FALSE,
                   grid |-> [w |-> m.width, h |-> m.height,
                             solid |-> SolidOfLayer(m, m.layers[g])]]

InitGrid ==
    \E size \in GridSizes, n \in 0 .. MaxLayers :
    \E layers \in [1 .. n -> GridLayers(size)] :
        /\ map_data = MapData(size, layers)
        /\ tiles = NoGrid
        /\ ent = "Player"
        /\ body = NewBody("Player", 3, 0, 0)
        /\ last = Started(body)
        /\ ticks = 0
        /\ enemy = NoEnemy
        /\ game = NoGame

CreateCollisionGrid ==
    /\ ticks = 0
    /\ tiles' = create_collision_grid(map_data).grid
    /\ last' = [Started(body) EXCEPT
                   !.op = IF create_collision_grid(map_data).raised
                          THEN "IndexError" ELSE "create_collision_grid"]
    /\ ticks' = 1
    /\ UNCHANGED <<ent, body, map_data, enemy, game>>

SpecGrid == InitGrid /\ [][CreateCollisionGrid]_vars

-----------------------------------------------------------------------------
(* enemies.py: Enemy.update.  Positions in 1/PX px; vel_x is px per call.  *)
(* Projectile is not part of the sources: a shot is recorded, not flown.   *)

\* calls of Enemy.update explored
MaxEnemyTicks == 4

screen_width == 1920
shoot_cooldown == 800

\* the right end of the patrol: 900 * scale_factor
PatrolEnd(e) == (900 * e.scale4 * PX) \div 4

NewEnemy(ex, ey, scale4) ==
    [x |-> ex, y |-> ey, scale4 |-> scale4, vel_x |-> (2 * scale4 * PX) \div 4,
     direction |-> 1, is_aiming |-> FALSE, shoot_timer |-> 0, shot |-> FALSE]

\* mutant of EnemyMove: the enemy turns around at the right end only
EnemyMove_TurnsOnlyRight(e) ==
    LET x1 == e.x + e.vel_x * e.direction
    IN  [e EXCEPT !.x = x1,
                  !.direction = IF x1 > PatrolEnd(e) THEN -e.direction ELSE e.direction]

\* "Move enemy": one step, then turn around when outside the patrol range
EnemyMove(e) ==
    LET x1 == e.x + e.vel_x * e.direction
    IN  [e EXCEPT !.x = x1,
                  !.direction = IF x1 < 0 \/ x1 > PatrolEnd(e)
                                THEN -e.direction ELSE e.direction]

\* mutant of CanShoot: the check that the player is on screen is left out
CanShoot_OffScreenToo(e, p, camera_x) ==
    /\ Abs(e.x - p.x) < (1200 * e.scale4 * PX) \div 4
    /\ Abs(e.y - p.y) < (100 * e.scale4 * PX) \div 4
    /\ IF e.direction = 1 THEN p.x > e.x ELSE p.x < e.x

\* player_on_screen and in_range and horizontal_sight and enemy_facing_player
CanShoot(e, p, camera_x) ==
    /\ camera_x <= p.x /\ p.x <= camera_x + screen_width * PX
    /\ Abs(e.x - p.x) < (1200 * e.scale4 * PX) \div 4
    /\ Abs(e.y - p.y) < (100 * e.scale4 * PX) \div 4
    /\ IF e.direction = 1 THEN p.x > e.x ELSE p.x < e.x

\* aim and, once shoot_cooldown of aiming time has gathered, shoot
EnemyAim(e, dt, p, camera_x) ==
    IF CanShoot(e, p, camera_x)
    THEN [e EXCEPT !.is_aiming = TRUE,
                   !.shoot_timer = IF e.shoot_timer + dt >= shoot_cooldown
                                   THEN 0 ELSE e.shoot_timer + dt,
                   !.shot = e.shoot_timer + dt >= shoot_cooldown]
    ELSE [e EXCEPT !.is_aiming = FALSE, !.shot = FALSE]

enemy_update(e, dt, p, camera_x) == EnemyAim(EnemyMove(e), dt, p, camera_x)

\* scale_factor in quarters, and start positions along the patrol range
EnemyScales == {4, 8}
EnemyXs(scale4) ==
    {0, PX, (450 * scale4 * PX) \div 4, (900 * scale4 * PX) \div 4 - PX,
     (900 * scale4 * PX) \div 4}

\* where the player stands when update is called, and the camera's x
PlayerSpots == {<<100, 800>>, <<100, 650>>, <<1500, 800>>, <<1856, 880>>}
Cameras == {0, 600 * PX}

\* an Enemy at some time of its patrol: every start position is passed again
\* on the way back, after the turn at the right end, with direction -1
InitEnemy ==
    \E s4 \in EnemyScales, d \in {1, -1} :
    \E ex \in EnemyXs(s4) :
        /\ enemy = [NewEnemy(ex, 800 * PX, s4) EXCEPT !.direction = d]
        /\ ent = "Enemy"
        /\ tiles = NoGrid
        /\ body = NewBody("Player", 8, 100, 800)
        /\ last = Started(body)
        /\ ticks = 0
        /\ map_data = NoMap
        /\ game = NoGame

\* Enemy.update(dt, player, camera_x, screen_width)
EnemyUpdate ==
    /\ ticks < MaxEnemyTicks
    /\ \E p \in PlayerSpots, cam \in Cameras, dt \in DTs :
       \E player \in {[body EXCEPT !.x = p[1] * PX, !.y = p[2] * PX]} :
          /\ enemy' = enemy_update(enemy, dt, player, cam)
          /\ body' = player
          /\ last' = [Started(player) EXCEPT !.op = "enemy_update", !.dt = dt,
                                             !.camera_x = cam]
    /\ ticks' = ticks + 1
    /\ UNCHANGED <<ent, tiles, map_data, game>>

SpecEnemy == InitEnemy /\ [][EnemyUpdate]_vars

-----------------------------------------------------------------------------
(* The collision passes called directly, on bodies drawn from bounded sets *)

\* entry states of a pass: positions (1/PX px) around the ceiling tiles
\* (top 832, bottom 864), the floor (top 928) and the wall (left 256), and
\* left of, right of, above and below the grid (1920 x 960 px)
PassXs == {160 * PX, 193 * PX + 4000, 250 * PX, -(100 * PX) - 5000, 1930 * PX}
PassYs(s) == {(832 - s) * PX, (832 - s) * PX + 15000, 857 * PX + 560,
              (928 - s) * PX, (928 - s) * PX + 15000, 700 * PX,
              -(70 * PX) - 5000, 970 * PX}
PassVelYs == {-(434 * VEL), 0, 48 * VEL}
PassKinds == {<<"Player", 8>>, <<"Player", 3>>, <<"NPC", 4>>}
PassGrounds == {<<FALSE, 0>>, <<TRUE, 0>>, <<FALSE, 1>>}

InitPass ==
    \E k \in PassKinds, t \in {LevelGrid, OpenGrid}, px \in PassXs,
       vx \in {-1, 0, 1}, vy \in PassVelYs, dash \in BOOLEAN, g \in PassGrounds :
    \E py \in PassYs(Size(k[1], k[2])) :
        /\ ent = k[1]
        /\ tiles = t
        /\ body = [NewBody(k[1], k[2], 0, 0) EXCEPT
                      !.x = px, !.y = py, !.vel_x = vx * speed(k[1], k[2]),
                      !.vel_y = vy, !.is_dashing = dash /\ k[1] = "Player",
                      !.on_ground = g[1], !.jump_count = g[2]]
        /\ last = Started(body)
        /\ ticks = 0
        /\ enemy = NoEnemy
        /\ game = NoGame
        /\ map_data = NoMap

Called(op) == [Started(body) EXCEPT !.op = op]

CallCheckHorizontal ==
    /\ ticks < MaxCalls
    /\ tiles.h > 0
    /\ body' = check_horizontal_collisions(body, tiles)
    /\ last' = Called("check_horizontal")
    /\ ticks' = ticks + 1
    /\ UNCHANGED <<ent, tiles, map_data, enemy, game>>

CallCheckVertical ==
    /\ ticks < MaxCalls
    /\ tiles.h > 0
    /\ body' = check_vertical_collisions(body, tiles)
    /\ last' = Called("check_vertical")
    /\ ticks' = ticks + 1
    /\ UNCHANGED <<ent, tiles, map_data, enemy, game>>

NextPass == CallCheckHorizontal \/ CallCheckVertical

SpecPass == InitPass /\ [][NextPass]_vars

\* the two passes in the order both update methods call them, as entity e
\* runs them on a body of the same size, position and velocity
CollisionCore(e, b, t) ==
    check_vertical_collisions(check_horizontal_collisions([b EXCEPT !.ent = e], t), t)

\* "self.check_horizontal_collisions(tiles); self.check_vertical_collisions(tiles)"
\* of Player.update / NPC.update, called on a body placed anywhere
CallCollisionCore ==
    /\ ticks < MaxCalls
    /\ tiles.h > 0
    /\ body' = CollisionCore(ent, body, tiles)
    /\ last' = Called("collision_core")
    /\ ticks' = ticks + 1
    /\ UNCHANGED <<ent, tiles, map_data, enemy, game>>

SpecCore == InitPass /\ [][CallCollisionCore]_vars

-----------------------------------------------------------------------------
(* The Player's cleanliness: make_dirty, clean_up and the ticks between *)

\* calls and ticks explored
MaxHealthTicks == 4

HealthSpawns == { <<"Player", 3, 100, 930, NoGrid>>,
                  <<"Player", 8, 160, 864, LevelGrid>> }
HealthKeys == { {}, {"RIGHT"} }

InitHealth ==
    \E s \in HealthSpawns :
        /\ ent = s[1]
        /\ tiles = s[5]
        /\ body = NewBody(s[1], s[2], s[3], s[4])
        /\ last = Started(body)
        /\ ticks = 0
        /\ enemy = NoEnemy
        /\ game = NoGame
        /\ map_data = NoMap

\* player.make_dirty()
CallMakeDirty ==
    /\ ticks < MaxHealthTicks
    /\ body' = make_dirty(body)
    /\ last' = Called("make_dirty")
    /\ ticks' = ticks + 1
    /\ UNCHANGED <<ent, tiles, map_data, enemy, game>>

\* player.clean_up()
CallCleanUp ==
    /\ ticks < MaxHealthTicks
    /\ body' = clean_up(body)
    /\ last' = Called("clean_up")
    /\ ticks' = ticks + 1
    /\ UNCHANGED <<ent, tiles, map_data, enemy, game>>

\* player.update(dt, collision_grid, None)
HealthUpdate ==
    /\ ticks < MaxHealthTicks
    /\ \E keys \in HealthKeys, dt \in DTs : Tick(keys, dt)

NextHealth == CallMakeDirty \/ CallCleanUp \/ HealthUpdate

SpecHealth == InitHealth /\ [][NextHealth]_vars

-----------------------------------------------------------------------------
(* The Game's quest: the E key, the medicine items, the R key *)

\* E presses the history counts
MaxPresses == 2

Medicines == 1 .. medicine_count

\* NPC.get_dialogue: the key of the line it returns last
get_dialogue(g) ==
    IF ~g.quest_accepted THEN "quest_offer"
    ELSE IF ~g.quest_completed THEN "quest_in_progress"
    ELSE "quest_finished"

\* NPC.accept_quest and NPC.complete_quest, and the key of the line returned
accept_quest(g) == [g EXCEPT !.quest_accepted = TRUE, !.dialogue = "quest_accepted"]
complete_quest(g) == [g EXCEPT !.quest_completed = TRUE, !.dialogue = "quest_complete"]

\* Game.interact_with_npc
interact_with_npc(g) ==
    IF ~g.quest_accepted
    THEN [g EXCEPT !.dialogue = get_dialogue(g)]
    ELSE IF ~g.quest_completed
         THEN IF g.medicine_collected >= medicine_required
              THEN [complete_quest([g EXCEPT !.collected_items = g.medicine_collected])
                      EXCEPT !.quest_active = FALSE]
              ELSE [g EXCEPT !.dialogue = get_dialogue(g)]
         ELSE g

\* Game.check_medicine_collection with the Player's rectangle over the items
\* of touching.  Only _medicine_check_counter % 10 is ever read, so the
\* counter is kept modulo check_period; -1 stands for the missing attribute.
check_medicine_collection(g, touching) ==
    LET counter == IF g.check_counter = -1 THEN 0
                   ELSE (g.check_counter + 1) % check_period
        found == touching \ g.collected
        n == g.medicine_collected + Cardinality(found)
    IN  IF counter % check_period = 0 /\ found # {}
        THEN [g EXCEPT !.check_counter = counter, !.collected = g.collected \cup found,
                       !.medicine_collected = n, !.quest_active = TRUE,
                       !.collected_items = n]
        ELSE [g EXCEPT !.check_counter = counter]

\* the quest state Game.reset_game builds: a new NPC, new medicine items, the
\* narrator's dialogue; _medicine_check_counter is not touched
reset_game(g) ==
    [NoGame EXCEPT !.dialogue = "welcome", !.check_counter = g.check_counter]

InitQuest ==
    /\ ent = "Player"
    /\ tiles = NoGrid
    /\ body = NewBody("Player", 8, 100, 800)
    /\ last = Started(body)
    /\ ticks = 0
    /\ enemy = NoEnemy
    /\ map_data = NoMap
    /\ game = reset_game(NoGame)

\* K_e in handle_keydown
InteractWithNPC ==
    /\ game' = interact_with_npc(game)
    /\ last' = [Started(body) EXCEPT !.op = "interact_with_npc", !.keys = {"E"},
                                     !.presses = Min(last.presses + 1, MaxPresses)]
    /\ UNCHANGED <<ent, tiles, body, ticks, map_data, enemy>>

\* the call in update_game; the Player is over at most one item at a time
CheckMedicineCollection ==
    /\ \E touching \in {{}} \cup {{m} : m \in Medicines} :
          game' = check_medicine_collection(game, touching)
    /\ last' = [Started(body) EXCEPT !.op = "check_medicine_collection",
                                     !.presses = last.presses]
    /\ UNCHANGED <<ent, tiles, body, ticks, map_data, enemy>>

\* K_r in handle_keydown
ResetGame ==
    /\ game' = reset_game(game)
    /\ last' = [Started(body) EXCEPT !.op = "reset_game"]
    /\ UNCHANGED <<ent, tiles, body, ticks, map_data, enemy>>

NextQuest == InteractWithNPC \/ CheckMedicineCollection \/ ResetGame

SpecQuest == InitQuest /\ [][NextQuest]_vars

-----------------------------------------------------------------------------
(* What the claims speak of *)

Updated == last.op = "update"
CalledVertical == last.op = "check_vertical"

\* the last operation ran the vertical pass (a tick does when it has a grid),
\* and the body on entry to it
RanVertical == CalledVertical \/ (Updated /\ tiles.h > 0)
VIn == IF CalledVertical THEN last.pre ELSE last.vin

\* solid tiles of the vertical / horizontal window that overlap b's rectangle
VHits(b) == Hits(RectOf(b), tiles, VWindow(b, tiles))
HHits(b) == Hits(RectOf(b), tiles, HWindow(b, tiles))

\* b stands exactly on top of solid tile c: y = tile_top - height, and the
\* column spans overlap
RestsOn(b, c) ==
    /\ c \in tiles.solid
    /\ b.y = (TileRect(c).top - b.height) * PX
    /\ RectOf(b).left < TileRect(c).right
    /\ RectOf(b).right > TileRect(c).left

\* the bottom edge of b is within 2 px of the hard-coded ground level
NearGroundLevel(b) == Abs(b.y + b.height * PX - ground_level * PX) <= 2 * PX

-----------------------------------------------------------------------------
(* C1 *)

\* C1: a body resting exactly on top of a solid tile (overlapping none), with
\* vel_y >= 0 on entry, leaves one call of check_vertical_collisions with
\* on_ground = true, vel_y = 0 and y unchanged.
C1_RestingBodyIsGrounded ==
    (/\ CalledVertical
     /\ last.pre.vel_y >= 0
     /\ VHits(last.pre) = {}
     /\ \E c \in tiles.solid : RestsOn(last.pre, c))
    => (body.on_ground /\ body.vel_y = 0 /\ body.y = last.pre.y)

-----------------------------------------------------------------------------
(* C2 *)

\* a Player on a grid that has cells and no solid tile, never given SPACE
FallsOnOpenGrid ==
    /\ Updated /\ ent = "Player"
    /\ tiles.h > 0 /\ tiles.w > 0 /\ tiles.solid = {}
    /\ "SPACE" \notin last.held

\* C2 as claimed: on a grid without solid tiles a Player that never jumps is
\* never on_ground at the end of a tick, and its y never decreases.
C2_NeverGroundedOnOpenGrid ==
    FallsOnOpenGrid => (~body.on_ground /\ body.y >= last.pre.y)

\* C2 amended: on a grid without solid tiles, a Player that never jumps ends
\* every tick either airborne with y not below its y before the tick, or on
\* the hard-coded ground level: on_ground, vel_y = 0 and y = 928 - height.
C2_GroundedOnlyAtGroundLevel ==
    FallsOnOpenGrid =>
        \/ (~body.on_ground /\ body.y >= last.pre.y)
        \/ (/\ body.on_ground /\ body.vel_y = 0
            /\ body.y = (ground_level - body.height) * PX)

\* a tick on an open grid that ends on the ground level, above where it began
C2_Witness ==
    /\ FallsOnOpenGrid /\ body.on_ground /\ body.y < last.pre.y

-----------------------------------------------------------------------------
(* C3 *)

\* the vertical pass ran on a body that overlaps a solid tile
VerticalOnOverlap == RanVertical /\ VHits(VIn) # {}

LandedOnTile ==
    /\ \E c \in VHits(VIn) : body.y = (TileRect(c).top - body.height) * PX
    /\ body.vel_y = 0 /\ body.on_ground /\ body.jump_count = 0

\* C3 as claimed: overlapping a solid tile, vel_y > 0 ends on top of an
\* overlapping tile with vel_y = 0, on_ground, jump_count = 0; vel_y < 0 ends
\* at the bottom of an overlapping tile with vel_y = 0 and on_ground = false.
C3_ResolveVertical ==
    VerticalOnOverlap =>
        /\ VIn.vel_y > 0 => LandedOnTile
        /\ VIn.vel_y < 0 =>
              /\ \E c \in VHits(VIn) : body.y = TileRect(c).bottom * PX
              /\ body.vel_y = 0 /\ ~body.on_ground

\* C3 amended: as claimed for vel_y > 0; for vel_y < 0 the call ends with
\* vel_y = 0 and either y = bottom of an overlapping tile and on_ground =
\* false, or (Player only) that bottom leaves the body's bottom edge within
\* 2 px of ground level 928 and the fallback ends the call with
\* y = 928 - height, on_ground = true and jump_count = 0.
C3_ResolveVerticalOrSnap ==
    VerticalOnOverlap =>
        /\ VIn.vel_y > 0 => LandedOnTile
        /\ VIn.vel_y < 0 =>
              /\ body.vel_y = 0
              /\ \E c \in VHits(VIn) :
                    LET bumped == [VIn EXCEPT !.y = TileRect(c).bottom * PX]
                    IN  \/ /\ body.y = bumped.y /\ ~body.on_ground
                           /\ ~(ent = "Player" /\ NearGroundLevel(bumped))
                           /\ body.jump_count = VIn.jump_count
                        \/ /\ ent = "Player" /\ NearGroundLevel(bumped)
                           /\ body.y = (ground_level - body.height) * PX
                           /\ body.on_ground /\ body.jump_count = 0

\* a head bump that ends on the ground level, and counted jumps are cleared
C3_Witness ==
    /\ VerticalOnOverlap /\ VIn.vel_y < 0 /\ body.on_ground
    /\ VIn.jump_count = 1

-----------------------------------------------------------------------------
(* C4 *)

\* C4: when the body overlaps solid tiles on entry to the horizontal pass of a
\* tick, vel_x > 0 ends the pass at x = tile.left - width and vel_x < 0 at
\* x = tile.right of an overlapping tile, dashing or not, and vel_x is kept.
C4_ResolveHorizontal ==
    (Updated /\ tiles.h > 0 /\ HHits(last.hin) # {}) =>
        /\ last.hin.vel_x > 0 =>
              \E c \in HHits(last.hin) : last.vin.x = (TileRect(c).left - body.width) * PX
        /\ last.hin.vel_x < 0 =>
              \E c \in HHits(last.hin) : last.vin.x = TileRect(c).right * PX
        /\ last.vin.vel_x = last.hin.vel_x

-----------------------------------------------------------------------------
(* C5 *)

\* C5: SPACE held while on_ground is false leaves vel_y, on_ground and
\* jump_count as they were after the input step; SPACE held while on_ground
\* is true sets vel_y = jump_speed.
C5_JumpOnlyFromGround ==
    (Updated /\ "SPACE" \in last.keys) =>
        IF last.pre.on_ground
        THEN last.inp.vel_y = jump_speed(ent, body.scale4)
        ELSE /\ last.inp.vel_y = last.pre.vel_y
             /\ last.inp.on_ground = last.pre.on_ground
             /\ last.inp.jump_count = last.pre.jump_count

\* SPACE held in the air, one jump already counted
C5_Witness ==
    /\ Updated /\ "SPACE" \in last.keys
    /\ ~last.pre.on_ground /\ last.pre.jump_count = 1

-----------------------------------------------------------------------------
(* C6 *)

\* C6 as claimed: in a tick neither the input step nor the clamps of update
\* write on_ground, and the value at the end of the tick is the one the
\* vertical pass computed.
C6_OnlyVerticalPassWrites ==
    Updated =>
        /\ last.inp.on_ground = last.pre.on_ground
        /\ last.hin.on_ground = last.inp.on_ground
        /\ tiles.h > 0 =>
              body.on_ground = check_vertical_collisions(last.vin, tiles).on_ground

\* C6 amended: with a non-empty grid the value at the end of the tick is the
\* one the vertical pass computed; the input step writes on_ground only to
\* clear it when it honours a jump; the Player's ground-level clamp (y > 928)
\* sets it true, and with an empty or missing grid the value at the end of the
\* tick is the one these two steps left.
C6_VerticalPassWritesLast ==
    Updated =>
        /\ last.inp.on_ground # last.pre.on_ground =>
              /\ "SPACE" \in last.keys /\ last.pre.on_ground /\ ~last.inp.on_ground
              /\ last.inp.vel_y = jump_speed(ent, body.scale4)
        /\ last.hin.on_ground # last.inp.on_ground =>
              /\ ent = "Player" /\ last.hin.on_ground
              /\ last.hin.y = (ground_level - body.height) * PX
        /\ tiles.h > 0 =>
              body.on_ground = check_vertical_collisions(last.vin, tiles).on_ground
        /\ tiles.h = 0 => body.on_ground = last.hin.on_ground

\* a tick without a grid that ends grounded by the ground-level clamp alone
C6_Witness ==
    /\ Updated /\ tiles.h = 0 /\ body.on_ground /\ ~last.inp.on_ground

-----------------------------------------------------------------------------
(* C7 *)

\* the vertical pass of the tick resolved downwards against a solid tile
LandedInTick == Updated /\ tiles.h > 0 /\ VIn.vel_y > 0 /\ VHits(VIn) # {}

\* C7 as claimed: a tick resets jump_count to 0 exactly when its vertical pass
\* lands the body on a solid tile (vel_y > 0): every landing resets it, and
\* otherwise jump_count stays what the input step left.
C7_ResetOnlyOnTileLanding ==
    Updated =>
        /\ LandedInTick => (body.on_ground /\ body.jump_count = 0)
        /\ ~LandedInTick => body.jump_count = last.inp.jump_count

\* C7 amended: a tick resets jump_count to 0 exactly when its vertical pass
\* ends with on_ground true, by a downward resolution against a solid tile
\* or, for the Player, by the ground-level fallback snap (which is the only
\* grounding without a tile landing); otherwise jump_count stays what the
\* input step left.
C7_ResetWhenPassGrounds ==
    Updated =>
        /\ LandedInTick => (body.on_ground /\ body.jump_count = 0)
        /\ (tiles.h > 0 /\ body.on_ground /\ ~LandedInTick) =>
              /\ ent = "Player" /\ body.jump_count = 0
              /\ body.y = (ground_level - body.height) * PX
        /\ ~(tiles.h > 0 /\ body.on_ground) => body.jump_count = last.inp.jump_count

\* a landing on a tile that clears a counted jump
C7_Witness ==
    /\ LandedInTick /\ last.inp.jump_count = 1 /\ body.jump_count = 0

-----------------------------------------------------------------------------
(* C8 *)

\* C8: in every reachable state of a Player, 0 <= jump_count <= max_jumps.
C8_JumpCountInRange ==
    ent = "Player" => (0 <= body.jump_count /\ body.jump_count <= max_jumps)

-----------------------------------------------------------------------------
(* C9 *)

\* D held at the start of a tick while the dash cooldown is running
DashOnCooldown ==
    Updated /\ "D" \in last.keys /\ last.pre.dash_cooldown_timer > 0

\* the input step of the same tick without the D key
WithoutD == handle_normal_movement(last.pre, last.keys \ {"D"})

DashNotRestarted ==
    /\ ~last.pre.is_dashing => ~last.inp.is_dashing
    /\ last.inp.dash_timer = last.pre.dash_timer
    /\ last.inp.dash_cooldown_timer = last.pre.dash_cooldown_timer

\* C9 as claimed: D held during the cooldown starts no dash, restarts no
\* timer, and changes neither vel_x nor vel_y (they are what the input step
\* gives without D).
C9_DashRejectedOnCooldown ==
    DashOnCooldown =>
        /\ DashNotRestarted
        /\ last.inp.vel_x = WithoutD.vel_x
        /\ last.inp.vel_y = WithoutD.vel_y

\* C9 amended: D held during the cooldown starts no dash, restarts no timer
\* and does not change vel_y; it does not change the Player's vel_x; for the
\* NPC, D is also the move-right key, so vel_x = +speed unless A or LEFT is
\* held.
C9_DashRejectedButNPCSteers ==
    DashOnCooldown =>
        /\ DashNotRestarted
        /\ last.inp.vel_y = WithoutD.vel_y
        /\ ent = "Player" => last.inp.vel_x = WithoutD.vel_x
        /\ ent = "NPC" =>
              last.inp.vel_x = IF "A" \in last.keys \/ "LEFT" \in last.keys
                               THEN -speed(ent, body.scale4)
                               ELSE speed(ent, body.scale4)

\* D held after the dash has ended and before the cooldown has
C9_Witness ==
    /\ DashOnCooldown /\ ~last.pre.is_dashing /\ ~last.inp.is_dashing

-----------------------------------------------------------------------------
(* C10 *)

\* C10: in a tick that the Player begins dashing, the horizontal motion is the
\* dash boost of handle_dash and LEFT/RIGHT change neither vel_x nor
\* facing_right.
C10_DashOverridesInput ==
    (Updated /\ ent = "Player" /\ last.pre.is_dashing) =>
        /\ last.inp.vel_x = last.pre.vel_x
        /\ last.inp.facing_right = last.pre.facing_right
        /\ last.hin.x = Max(0, Min(handle_dash(last.pre, last.keys, last.dt).x,
                                   (map_width - body.width) * PX))

-----------------------------------------------------------------------------
(* C11 *)

\* the input step of the last Player tick started a dash
DashStarted == Updated /\ ent = "Player" /\ last.inp.is_dashing /\ ~last.pre.is_dashing

\* after a tick the dash is active iff less than dash_duration of tick time
\* has passed since it started
DashLastsDuration ==
    (Updated /\ ent = "Player") =>
        (body.is_dashing <=> (last.dashAge >= 0 /\ last.dashAge < dash_duration))

\* C11 as claimed: a dash stays active for dash_duration of tick time; the
\* cooldown starts when the dash ends, so a new dash starts only when
\* dash_cooldown of tick time has passed since the previous dash ended.
C11_CooldownAfterDashEnds ==
    /\ DashLastsDuration
    /\ (DashStarted /\ last.dashIdleIn >= 0) => last.dashIdleIn >= dash_cooldown

\* C11 amended: a dash stays active until dash_duration of tick time has
\* passed since it started; the cooldown timer is set to dash_cooldown in the
\* tick that starts the dash and runs down from that tick on, the dash's own
\* ticks included, so a new dash starts only when the Player is not dashing
\* and dash_cooldown of tick time has passed since the previous dash STARTED.
C11_CooldownFromDashStart ==
    /\ DashLastsDuration
    /\ DashStarted =>
          /\ last.inp.dash_timer = dash_duration
          /\ last.inp.dash_cooldown_timer = dash_cooldown
          /\ last.dashAgeIn >= 0 => last.dashAgeIn >= dash_cooldown
    /\ (Updated /\ ent = "Player" /\ last.dashAge >= 0) =>
          IF last.dashAge < dash_cooldown
          THEN body.dash_cooldown_timer = dash_cooldown - last.dashAge
          ELSE body.dash_cooldown_timer <= 0

\* a second dash starts less than dash_cooldown after the first one ended
C11_Witness ==
    /\ DashStarted /\ last.dashIdleIn >= 0 /\ last.dashIdleIn < dash_cooldown

-----------------------------------------------------------------------------
(* C12 *)

\* the top of the tile the drop is aimed at, in 1/PX px
FallTileTop == TileRect(<<5, 10>>).top * PX

\* the last tick is the first whose integrated bottom edge passes the tile's top
FirstPassesTop ==
    /\ Updated /\ ~last.pre.on_ground
    /\ last.pre.y + body.height * PX <= FallTileTop
    /\ last.hin.y + body.height * PX > FallTileTop

\* C12: in the drop onto tile (5,10), on_ground is false after every tick
\* whose integrated bottom edge has not passed the tile's top (320), and the
\* first tick in which it passes ends with on_ground, vel_y = 0 and
\* y = 320 - height = 288.
C12_LandsWhenBottomPassesTop ==
    (Updated /\ tiles = FallGrid) =>
        /\ last.hin.y + body.height * PX <= FallTileTop => ~body.on_ground
        /\ FirstPassesTop =>
              /\ body.on_ground /\ body.vel_y = 0
              /\ body.y = FallTileTop - body.height * PX

-----------------------------------------------------------------------------
(* C13 *)

\* C13: after a call of check_vertical_collisions (made directly, or as the
\* last position-changing step of a tick), a second call made at once leaves
\* x and y unchanged, for Player and NPC.
C13_VerticalIdempotent ==
    RanVertical =>
        /\ check_vertical_collisions(body, tiles).x = body.x
        /\ check_vertical_collisions(body, tiles).y = body.y

\* a call that moved the body (so the second call starts from a corrected y)
C13_Witness ==
    /\ CalledVertical /\ body.y # last.pre.y /\ VHits(last.pre) # {}

-----------------------------------------------------------------------------
(* C14 *)

\* a tick given an empty or missing grid
TickWithoutGrid == Updated /\ tiles.h = 0

\* the body after input, gravity and integration of the last tick
Moved == Integrate(ApplyGravity(last.inp, last.dt), last.dt)

\* x and y of Moved, clamped to the map rectangle for the Player
FreeFallX == IF ent = "Player"
             THEN Max(0, Min(Moved.x, (map_width - body.width) * PX)) ELSE Moved.x
FreeFallY == IF ent = "Player"
             THEN Max(0, Min(Moved.y, (map_height - body.height) * PX)) ELSE Moved.y

\* C14 as claimed: without a grid the tick is a free fall: x and y are the
\* integrated (Player: map-clamped) values, vel_y is the integrated one (not
\* zeroed) and on_ground is never true.
C14_FreeFallWithoutGrid ==
    TickWithoutGrid =>
        /\ body.x = FreeFallX /\ body.y = FreeFallY
        /\ body.vel_y = Moved.vel_y
        /\ ~body.on_ground

\* C14 amended: without a grid no tile correction is made; the NPC free-falls
\* and is never on_ground; the Player free-falls inside the map clamp unless
\* the clamped y is below ground level 928: then the tick ends with
\* y = 928 - height, vel_y = 0 and on_ground = true, and on_ground stays true
\* until a jump clears it.
C14_FreeFallOrGroundClamp ==
    TickWithoutGrid =>
        /\ body.x = FreeFallX
        /\ IF ent = "Player" /\ FreeFallY > ground_level * PX
           THEN /\ body.y = (ground_level - body.height) * PX
                /\ body.vel_y = 0 /\ body.on_ground
           ELSE /\ body.y = FreeFallY /\ body.vel_y = Moved.vel_y
                /\ body.on_ground = last.inp.on_ground
        /\ ent = "NPC" => ~body.on_ground

\* a Player's tick without a grid that the ground-level clamp ends: lifted to
\* 928 - height with vel_y zeroed
C14_Witness ==
    /\ TickWithoutGrid /\ ent = "Player" /\ FreeFallY > ground_level * PX
    /\ body.y < FreeFallY /\ Moved.vel_y > 0 /\ body.vel_y = 0

-----------------------------------------------------------------------------
(* C15 *)

CalledHorizontal == last.op = "check_horizontal"

\* the cells of the grid
GridCells(t) == (0 .. t.w - 1) \X (0 .. t.h - 1)

\* b's rectangle lies entirely outside the grid's pixel extent
OutsideGrid(b, t) ==
    \/ RectOf(b).right <= 0 \/ RectOf(b).left >= t.w * tile_size
    \/ RectOf(b).bottom <= 0 \/ RectOf(b).top >= t.h * tile_size

\* C15: whatever the body's position, the cells a pass visits are cells of
\* the grid; a body entirely outside the grid's pixel extent gets no tile
\* correction: the horizontal pass changes nothing, and the vertical pass
\* changes x, y and vel_y only through the Player's ground-level fallback.
C15_OutOfBoundsIsNotSolid ==
    (CalledHorizontal \/ CalledVertical) =>
        /\ WinCells(HWindow(last.pre, tiles)) \subseteq GridCells(tiles)
        /\ WinCells(VWindow(last.pre, tiles)) \subseteq GridCells(tiles)
        /\ (OutsideGrid(last.pre, tiles) /\ CalledHorizontal) => body = last.pre
        /\ (OutsideGrid(last.pre, tiles) /\ CalledVertical) =>
              /\ body.x = last.pre.x
              /\ \/ body.y = last.pre.y /\ body.vel_y = last.pre.vel_y
                 \/ /\ ent = "Player" /\ last.pre.vel_y >= 0
                    /\ NearGroundLevel(last.pre)
                    /\ body.y = (ground_level - body.height) * PX
                    /\ body.vel_y = 0

\* a pass called on a body left of the grid, moving
C15_Witness ==
    /\ CalledVertical /\ OutsideGrid(last.pre, tiles)
    /\ RectOf(last.pre).right < 0 /\ last.pre.vel_y > 0 /\ tiles.solid # {}

-----------------------------------------------------------------------------
(* C16 *)

\* b's rectangle lies inside the grid's pixel extent
InsideGrid(b, t) ==
    /\ RectOf(b).left >= 0 /\ RectOf(b).right <= t.w * tile_size
    /\ RectOf(b).top >= 0 /\ RectOf(b).bottom <= t.h * tile_size

\* first and last tile index (along one axis) of the cells that the closed
\* interval lo..hi of pixels touches, edge contact included
FirstTouched(lo) == -((tile_size - lo) \div tile_size)
LastTouched(hi) == hi \div tile_size

\* the cells b's bounding box touches plus one tile of margin in every
\* direction, clipped to the grid
MarginCells(b, t) ==
    (Max(0, FirstTouched(RectOf(b).left) - 1)
        .. Min(t.w - 1, LastTouched(RectOf(b).right) + 1))
    \X (Max(0, FirstTouched(RectOf(b).top) - 1)
        .. Min(t.h - 1, LastTouched(RectOf(b).bottom) + 1))

\* every solid tile of the grid that overlaps b's rectangle
AllHits(b, t) == {c \in t.solid : colliderect(RectOf(b), TileRect(c))}

\* C16: for a Player 64x64, a Player 24x24 or an NPC 60x60 inside the grid,
\* the windows of check_horizontal_collisions and check_vertical_collisions
\* contain every cell the bounding box touches plus one tile of margin
\* (clipped to the grid), and so every solid tile that overlaps the body.
C16_WindowCoversBody ==
    ((CalledHorizontal \/ CalledVertical) /\ InsideGrid(last.pre, tiles)) =>
        /\ MarginCells(last.pre, tiles) \subseteq WinCells(HWindow(last.pre, tiles))
        /\ MarginCells(last.pre, tiles) \subseteq WinCells(VWindow(last.pre, tiles))
        /\ AllHits(last.pre, tiles) \subseteq WinCells(HWindow(last.pre, tiles))
        /\ AllHits(last.pre, tiles) \subseteq WinCells(VWindow(last.pre, tiles))

\* a 64 px body that reaches into the third column and row from its own,
\* overlapping a solid tile there
C16_Witness ==
    /\ CalledHorizontal /\ InsideGrid(last.pre, tiles) /\ last.pre.width = 64
    /\ \E c \in AllHits(last.pre, tiles) :
          c[1] = TileOf(last.pre.x) + 2 /\ c[2] = TileOf(last.pre.y) + 2

-----------------------------------------------------------------------------
(* C17 *)

\* the body as the tile sweep of the last vertical pass left it
Swept == VSweep([VIn EXCEPT !.on_ground = FALSE], RectOf(VIn), tiles, VHits(VIn))

Snapped ==
    /\ body.on_ground /\ body.y = (ground_level - body.height) * PX

\* C17 as claimed: in the Player's vertical pass, on_ground false after the
\* sweep and the bottom edge within 2 px of 928 end the call with on_ground
\* and y = 928 - height, whatever the sign of vel_y; further away the
\* fallback changes nothing.
C17_SnapWhateverVelY ==
    (RanVertical /\ ent = "Player") =>
        /\ (~Swept.on_ground /\ NearGroundLevel(Swept)) => Snapped
        /\ ~NearGroundLevel(Swept) =>
              /\ body.y = Swept.y /\ body.vel_y = Swept.vel_y
              /\ body.on_ground = Swept.on_ground
              /\ body.jump_count = Swept.jump_count

\* C17 amended: the fallback acts only when, after the sweep, on_ground is
\* false, vel_y >= 0 and the bottom edge is within 2 px of 928: the call then
\* ends with on_ground, y = 928 - height, vel_y = 0 and jump_count = 0; when
\* vel_y < 0 or the bottom edge is more than 2 px away it changes nothing.
C17_SnapOnlyWhenNotRising ==
    (RanVertical /\ ent = "Player") =>
        /\ (~Swept.on_ground /\ Swept.vel_y >= 0 /\ NearGroundLevel(Swept)) =>
              (Snapped /\ body.vel_y = 0 /\ body.jump_count = 0)
        /\ (Swept.vel_y < 0 \/ ~NearGroundLevel(Swept)) =>
              /\ body.y = Swept.y /\ body.vel_y = Swept.vel_y
              /\ body.on_ground = Swept.on_ground
              /\ body.jump_count = Swept.jump_count

\* a rising Player within 2 px of the ground level, left alone by the fallback
C17_Witness ==
    /\ RanVertical /\ ent = "Player"
    /\ Swept.vel_y < 0 /\ NearGroundLevel(Swept) /\ ~body.on_ground

-----------------------------------------------------------------------------
(* C18 *)

\* C18: at the end of every Player.update tick the position is inside the
\* map rectangle: 0 <= x <= 1920 - width and 0 <= y <= 960 - height.
C18_InsideMapAfterTick ==
    (Updated /\ ent = "Player") =>
        /\ 0 <= body.x /\ body.x <= (map_width - body.width) * PX
        /\ 0 <= body.y /\ body.y <= (map_height - body.height) * PX

-----------------------------------------------------------------------------
(* C19 *)

\* C19: in every Player tick gravity is added to vel_y and the sum is limited
\* to max_fall_speed before the position is integrated: the vel_y that moves
\* y, the downward displacement of the tick and vel_y at the end of the tick
\* never exceed max_fall_speed (times dt).
C19_FallSpeedLimited ==
    (Updated /\ ent = "Player") =>
        /\ Moved.vel_y = Min(last.inp.vel_y + GravityStep(last.inp, last.dt),
                             max_fall_speed)
        /\ Moved.y = last.inp.y + Move(Moved.vel_y, last.dt)
        /\ last.hin.vel_y \in {Moved.vel_y, 0}
        /\ last.hin.y - last.pre.y <= Move(max_fall_speed, last.dt)
        /\ body.vel_y <= max_fall_speed

\* a tick in which gravity alone would have taken vel_y beyond the limit
C19_Witness ==
    /\ Updated /\ ent = "Player"
    /\ last.inp.vel_y + GravityStep(last.inp, last.dt) > max_fall_speed
    /\ body.vel_y = max_fall_speed /\ body.y > last.pre.y

-----------------------------------------------------------------------------
(* C20 *)

\* the cells whose tile identifier is non-zero in a layer named 'ground' or
\* 'ground1' of map m
GroundUnion(m) ==
    {c \in (0 .. m.width - 1) \X (0 .. m.height - 1) :
        \E i \in DOMAIN m.layers :
            /\ m.layers[i].name \in {"ground", "ground1"}
            /\ m.layers[i].data[c[2] * m.width + c[1] + 1] # 0}

\* C20: on map data as load_tmx_map returns it, extract_ground_layer returns
\* a height x width grid whose cell [y][x] is 1 exactly when the tile
\* identifier at (x, y) is non-zero in layer 'ground' or in layer 'ground1'.
C20_GroundLayersUnion ==
    (map_data # NoMap /\ ticks > 0) =>
        /\ last.op = "extract_ground_layer"
        /\ tiles.w = map_data.width /\ tiles.h = map_data.height
        /\ tiles.solid = GroundUnion(map_data)

-----------------------------------------------------------------------------
(* C21 *)

GridBuilt == last.op \in {"create_collision_grid", "IndexError"}

\* the layers of map_data named 'ground'
GroundLayers == {i \in DOMAIN map_data.layers : map_data.layers[i].name = "ground"}

\* the first of them
TheGroundLayer ==
    map_data.layers[CHOOSE i \in GroundLayers : \A j \in GroundLayers : i <= j]

\* C21: for every map size, rows < 30 included, create_collision_grid returns
\* without raising a height x width grid whose cell [y][x] is 1 exactly when
\* the 'ground' layer's identifier at index y * layer_width + x exists and is
\* non-zero (all 0 when there is no 'ground' layer).
C21_GridFromGroundLayer ==
    GridBuilt =>
        /\ last.op = "create_collision_grid"
        /\ tiles.w = map_data.width /\ tiles.h = map_data.height
        /\ \A c \in (0 .. map_data.width - 1) \X (0 .. map_data.height - 1) :
              c \in tiles.solid <=>
                  /\ GroundLayers # {}
                  /\ c[2] * TheGroundLayer.width + c[1] + 1
                        \in DOMAIN TheGroundLayer.data
                  /\ TheGroundLayer.data[c[2] * TheGroundLayer.width + c[1] + 1] # 0

-----------------------------------------------------------------------------
(* C22 *)

\* C22: the animation state at the end of a Player or NPC tick is 'jump'
\* when on_ground is false, otherwise 'run' when |vel_x| > 5, otherwise
\* 'idle', a function of the on_ground and vel_x the tick ends with alone.
C22_AnimationState ==
    Updated =>
        body.state = IF ~body.on_ground THEN "jump"
                     ELSE IF body.vel_x > 5 * VEL \/ body.vel_x < -(5 * VEL)
                          THEN "run" ELSE "idle"

\* a tick that ends in the air while moving sideways: 'jump' wins over 'run'
C22_Witness ==
    /\ Updated /\ ~body.on_ground /\ body.vel_x # 0 /\ body.state = "jump"
    /\ last.pre.state = "run"

-----------------------------------------------------------------------------
(* C23 *)

EnemyUpdated == last.op = "enemy_update"

\* the three line-of-sight checks, on the state Enemy.update ends with
InBand == Abs(enemy.y - body.y) < (100 * enemy.scale4 * PX) \div 4
InRange == Abs(enemy.x - body.x) < (1200 * enemy.scale4 * PX) \div 4
FacesPlayer == IF enemy.direction = 1 THEN body.x > enemy.x ELSE body.x < enemy.x

\* the player is between the camera's left edge and its right edge
OnScreen == last.camera_x <= body.x /\ body.x <= last.camera_x + screen_width * PX

\* C23 as claimed: after every Enemy.update, is_aiming is true exactly when
\* the player is in the horizontal band, in range and on the side the enemy
\* faces, and depends on no other input.
C23_AimsOnLineOfSight ==
    EnemyUpdated => (enemy.is_aiming <=> (InBand /\ InRange /\ FacesPlayer))

\* C23 amended: is_aiming is true exactly when the player is on screen
\* (camera_x <= player.x <= camera_x + screen_width), in the band, in range
\* and on the side the enemy faces after its move.
C23_AimsWhenOnScreen ==
    EnemyUpdated =>
        (enemy.is_aiming <=> (OnScreen /\ InBand /\ InRange /\ FacesPlayer))

\* in line of sight but left of the camera: the enemy does not aim
C23_Witness ==
    /\ EnemyUpdated /\ InBand /\ InRange /\ FacesPlayer
    /\ ~OnScreen /\ ~enemy.is_aiming

-----------------------------------------------------------------------------
(* C30 *)

\* C30: for an Enemy created with 0 <= x <= 900 * scale_factor, direction is
\* always 1 or -1 and x stays within [-vel_x, 900 * scale_factor + vel_x];
\* an update that ends outside the patrol range leaves the enemy facing back
\* into it.
C30_PatrolRange ==
    ent = "Enemy" =>
        /\ enemy.direction \in {1, -1}
        /\ -enemy.vel_x <= enemy.x /\ enemy.x <= PatrolEnd(enemy) + enemy.vel_x
        /\ (EnemyUpdated /\ enemy.x < 0) => enemy.direction = 1
        /\ (EnemyUpdated /\ enemy.x > PatrolEnd(enemy)) => enemy.direction = -1

\* the enemy has stepped over the left end, turned, and is back in range
C30_Witness ==
    /\ EnemyUpdated /\ ticks >= 3 /\ enemy.direction = 1
    /\ enemy.x > 0 /\ enemy.x <= 2 * enemy.vel_x

-----------------------------------------------------------------------------
(* C24 *)

\* solid tiles that lay below b's bottom edge, under its column span
TilesBelow(b) ==
    {c \in tiles.solid :
        /\ RectOf(b).left < TileRect(c).right /\ RectOf(b).right > TileRect(c).left
        /\ TileRect(c).top * PX >= b.y + b.height * PX}

\* C24: in a Player tick with dt <= 1/60 s and vel_x = 0, for every solid tile
\* that lay below the body's bottom edge under its column span, the tick does
\* not end with the bottom edge below that tile's top: the body is above it
\* or was landed on a tile (on_ground, bottom edge on a tile top not lower).
C24_NoTunnelling ==
    (Updated /\ ent = "Player" /\ last.dt <= DtFrame /\ last.inp.vel_x = 0) =>
        \A c \in TilesBelow(last.pre) :
            body.y + body.height * PX <= TileRect(c).top * PX

-----------------------------------------------------------------------------
(* C25 *)

\* C25: a Player tick with dt <= 1/60 s that starts with the rectangle
\* overlapping no solid tile ends with the rectangle overlapping no solid
\* tile, for every grid and every key input.
C25_NoOverlapAfterTick ==
    (/\ Updated /\ ent = "Player" /\ tiles.h > 0 /\ last.dt <= DtFrame
     /\ AllHits(last.pre, tiles) = {})
    => AllHits(body, tiles) = {}

\* the tick's integrated body fell (vel_y > 0) while moving sideways and
\* overlaps solid tiles of exactly one row, all of them beneath the
\* rectangle the tick started from: a flat floor and no wall
FallsOntoFloor ==
    /\ Updated /\ tiles.h > 0
    /\ last.hin.vel_x # 0 /\ last.hin.vel_y > 0
    /\ AllHits(last.hin, tiles) # {}
    /\ \A c \in AllHits(last.hin, tiles) :
          /\ TileRect(c).top >= RectOf(last.pre).bottom
          /\ \A d \in AllHits(last.hin, tiles) : d[2] = c[2]

\* C26: when a Player or NPC moving sideways falls onto a flat floor, the
\* horizontal pass leaves x as integrated, and x and vel_x at the end of the
\* tick are the integrated ones.
C26_FloorLeavesX ==
    FallsOntoFloor =>
        /\ last.vin.x = last.hin.x
        /\ body.x = last.hin.x
        /\ body.vel_x = last.hin.vel_x

CalledCore == last.op = "collision_core" /\ ~last.pre.is_dashing

\* the six fields the collision passes produce
CoreFields(b) == <<b.x, b.y, b.vel_x, b.vel_y, b.on_ground, b.jump_count>>

PlayerCore == CollisionCore("Player", last.pre, tiles)
NPCCore == CollisionCore("NPC", last.pre, tiles)

C29_DirtyUntilCleanUp ==
    (Updated /\ ent = "Player" /\ last.pre.is_dirty /\ last.dt > 0) =>
        /\ body.is_dirty
        /\ IF last.pre.health_drain_timer + last.dt >= health_drain_interval
           THEN /\ body.health_drain_timer = 0
                /\ body.max_health = Max(0, last.pre.max_health - health_drain_amount)
           ELSE /\ body.health_drain_timer = last.pre.health_drain_timer + last.dt
                /\ body.max_health = last.pre.max_health

\* E was pressed, the medicine items were collected, and E has just been
\* pressed again
PressedEAgain ==
    /\ last.op = "interact_with_npc" /\ last.presses >= 2
    /\ game.medicine_collected >= medicine_required

\* C28: after pressing E, collecting the 3 medicine items and pressing E
\* again, npc.quest_accepted and npc.quest_completed are both true.
C28_QuestCompletes ==
    PressedEAgain => (game.quest_accepted /\ game.quest_completed)

\* no game action sets npc.quest_accepted
QuestNeverAccepted == ~game.quest_accepted /\ ~game.quest_completed
====
